---- MODULE Spec2Model ----
(***************************************************************************)
(* Model of wavemap's PointcloudInputHandler                               *)
(* (ros/wavemap_ros/src/input_handler/pointcloud_input_handler.cc):        *)
(* the two subscriber callbacks that convert sensor messages into          *)
(* GenericStampedPointclouds and push them on pointcloud_queue_, and       *)
(* processQueue(), which drains the queue into the registered integrators. *)
(* All timestamps are unsigned nanoseconds, as in the code.                *)
(***************************************************************************)
EXTENDS Integers, Sequences, FiniteSets, TLC

\* ------------------------------------------------------------------ bounds
\* Number of clouds the callbacks enqueue in one behaviour.
MaxClouds == 2

\* ------------------------------------------------------- program constants
\* Nanoseconds per second (the 1000000000 of the time conversions).
NsPerSec == 1000000000
\* The largest and the smallest int32_t.
Int32Max == 2147483647
Int32Min == -Int32Max - 1

\* ------------------------------------------------------------ input domains
\* Message timestamps [ns]. 100 is the start of cloud A of the spec's
\* scenario (A ends at 200); 500000100 lies 0.5 s after A's timebase and
\* 500000200 lies 0.5 s after A's end.
PC2Stamps == {100, 500000100}
LivoxStamps == {100, 500000200}
\* Values of max_wait_for_pose, held in nanoseconds (0 s and 0.5 s).
MaxWaits == {0, 500000000}
\* Frame ids carried by messages, and values of the sensor_frame_id override.
MsgFrames == {"lidar"}
FrameOverrides == {""}
\* Values of time_offset, each as the ros::Duration of that many seconds.
TimeOffsets == { [sec |-> 0, nsec |-> 0] }
\* Field lists of PointCloud2 messages.
FieldLists ==
  { <<"x", "y", "z">>,  <<"i", "x", "y", "z">>,
    <<"x", "z", "y">>,  <<"y", "z">>,  <<"y", "x">>,  <<"x">>,  <<"x", "y">> }
\* What a read past the end of the field vector can yield besides a crash.
PastEndNames == {"y", "z", "?"}
\* Point payloads of PointCloud2 messages (positions; no per-point time).
PC2PointLists == { <<>>, <<"p2", "p1">> }
\* Point payloads of Livox messages (position and offset_time [ns]).
LivoxPointLists ==
  { <<>>,
    << [position |-> "p1", offset_time |-> 0],
       [position |-> "p2", offset_time |-> 100] >> }
\* Registered integrators, in registration order.
IntegratorLists == { <<"projective", "ray", "ray">> }
\* Listener setups of the two debug topics.
SubscriberSetups ==
  { [reprojected_pointcloud |-> TRUE, projected_range_image |-> TRUE] }
\* Timestamps the transform buffer can hold as its oldest / newest entry.
TfOldestStamps == {0, 150}
TfNewestStamps == {150, 500000400}

\* The PointCloud2 messages the sensor driver can publish: every stamp
\* with well-formed fields, and every field list and the empty cloud at
\* one stamp.
PC2Msgs ==
  [stamp : PC2Stamps, frame_id : MsgFrames, fields : {<<"x", "y", "z">>},
   points : {<<"p2", "p1">>}]
  \cup [stamp : {100}, frame_id : MsgFrames, fields : FieldLists,
        points : {<<"p2", "p1">>}]
  \cup [stamp : {100}, frame_id : MsgFrames, fields : {<<"x", "y", "z">>},
        points : {<<>>}]

\* The Livox messages the sensor driver can publish.
LivoxMsgs ==
  [timebase : LivoxStamps, frame_id : MsgFrames,
   points : LivoxPointLists \ {<<>>}]
  \cup [timebase : {100}, frame_id : MsgFrames, points : {<<>>}]

\* ------------------------------------------------------------------ state
VARIABLES
  config,              \* PointcloudInputHandlerConfig (immutable)
  integrators_,        \* registered integrators (immutable)
  subscribers,         \* which debug topics have a listener (immutable)
  tf,                  \* transform buffer: [oldest, newest] buffered stamps
  pointcloud_queue_,   \* the ingestion queue
  pc,                  \* position of processQueue ("idle" when not running)
  resolve_result,      \* undistortion_result / lookupTransform outcome of the
                       \* running iteration
  posed_pointcloud,    \* processQueue's local posed_pointcloud
  crashed,             \* the process died (undefined behaviour materialised)
  \* history variables
  num_enqueued,        \* clouds pushed so far (also the next cloud id)
  invalid_toggle,      \* flips when an empty or field-invalid message
                       \* is delivered to a callback
  accepted,            \* the non-empty, field-valid messages delivered so far
  integrated,          \* log of integratePointcloud calls
  dropped,             \* log of clouds popped without integration
  iteration,           \* loop iterations begun by the running processQueue
                       \* invocation (0 when idle)
  published,           \* debug publications of the current iteration
  available            \* clouds the running processQueue invocation has had
                       \* to work on: those queued when it began plus those
                       \* pushed since (0 when idle)

vars == << config, integrators_, tf, pointcloud_queue_, pc, resolve_result,
           posed_pointcloud, crashed, num_enqueued, invalid_toggle, accepted,
           integrated, dropped, iteration, published, subscribers,
           available >>

\* No undistortion / lookup failure is held.
NoResult == "none"

\* PosedPointcloud<> posed_pointcloud as default-constructed (line 121): no
\* looked-up pose, no points.
DefaultPosedPointcloud == [pose |-> [T_W_C_at |-> -1], points |-> <<>>]

\* ------------------------------------------------------------------ helpers
RECURSIVE MaxOf(_)
MaxOf(S) ==
  IF S = {} THEN 0
  ELSE LET x == CHOOSE y \in S : TRUE
           m == MaxOf(S \ {x})
       IN  IF x > m THEN x ELSE m

\* --------------------------------------------------------- time conversions
\* convert::nanoSecondsToRosTime: a ros::Time of whole seconds and the
\* remaining nanoseconds (the uint32 narrowing of the seconds is not
\* reachable: every stamp of the model is below 2^31 ns).
nanoSecondsToRosTime(nsec) ==
  [sec |-> nsec \div NsPerSec, nsec |-> nsec % NsPerSec]


\* ros::Time - ros::Time: a ros::Duration, normalised to 0 <= nsec < 1e9.
RosTimeMinus(a, b) ==
  LET sec  == a.sec - b.sec
      nsec == a.nsec - b.nsec
  IN  IF nsec < 0 THEN [sec |-> sec - 1, nsec |-> nsec + NsPerSec]
                  ELSE [sec |-> sec, nsec |-> nsec]

\* ros::Time + ros::Duration, normalised to 0 <= nsec < 1e9.
RosTimePlusOffset(t, offset) ==
  LET total == t.nsec + offset.nsec
  IN  [sec  |-> t.sec + offset.sec + (total \div NsPerSec),
       nsec |-> total % NsPerSec]

\* A uint64_t count of nanoseconds, held as whole seconds and remaining
\* nanoseconds: the count sec * 1e9 + nsec, taken modulo 2^64 (wrapped) when
\* it is negative.
Uint64(sec, nsec) ==
  LET s == sec + (nsec \div NsPerSec)
  IN  [wrapped |-> s < 0, sec |-> s, nsec |-> nsec % NsPerSec]

\* duration.toSec() < max_wait_for_pose, with max_wait_for_pose held in
\* nanoseconds: sec + 1e-9 * nsec < max_wait.
DurationLessThan(d, max_wait_ns) == d.sec * NsPerSec + d.nsec < max_wait_ns

\* convert::rosTimeToNanoSeconds (ros::Time::toNSec).
rosTimeToNanoSeconds(t) == Uint64(t.sec, t.nsec)

\* config_.time_offset * 1000000000.0 lies within the range of int32_t.
InInt32Range(offset) ==
  \/ -2 <= offset.sec /\ offset.sec <= 1
  \/ offset.sec = 2 /\ offset.nsec <= Int32Max - 2 * NsPerSec
  \/ offset.sec = -3 /\ offset.nsec >= 3 * NsPerSec - Int32Max - 1

\* static_cast<int32_t>(config_.time_offset * 1000000000.0): in range the
\* cast keeps the value. Out of range the conversion is undefined; builds
\* yield the smallest int32_t (x86's "integer indefinite") or saturate.
CastInt32(offset) ==
  IF InInt32Range(offset)
    THEN { IF offset.sec >= 0
             THEN (offset.sec - 1) * NsPerSec + (offset.nsec + NsPerSec)
             ELSE (offset.sec + 1) * NsPerSec + (offset.nsec - NsPerSec) }
    ELSE { Int32Min, Int32Max }

\* ------------------------------------------------- GenericStampedPointcloud
\* (every timebase processQueue handles is below 2^31 ns)
getTimeBase(cloud) == cloud.time_base.sec * NsPerSec + cloud.time_base.nsec

getStartTime(cloud) == getTimeBase(cloud)

getEndTime(cloud) ==
  getTimeBase(cloud)
    + MaxOf({ cloud.points[i].time_offset : i \in 1..Len(cloud.points) })

getSensorFrame(cloud) == cloud.sensor_frame

getPoints(cloud) == cloud.points

\* A representative stamp within [start, end]: that of the middle point.
getMedianTime(cloud) ==
  getTimeBase(cloud) + cloud.points[(Len(cloud.points) \div 2) + 1].time_offset

\* ------------------------------------------------------------ pose source
\* TfTransformer::lookupTransform succeeds when the stamp lies within the
\* buffered history.
lookupTransform(buffer, stamp) ==
  buffer.oldest <= stamp /\ stamp <= buffer.newest

\* The pose looked up at a stamp (poses are identified by their stamp).
PoseAt(stamp) == [T_W_C_at |-> stamp]

\* PointcloudUndistorter::Result
UndistortionResults ==
  { "kSuccess", "kEndTimeNotInTfBuffer", "kStartTimeNotInTfBuffer",
    "kIntermediateTimeNotInTfBuffer", "kUnknown" }

\* The results PointcloudUndistorter::undistortPointcloud can return for a
\* cloud, given the buffered history.
undistortPointcloud(cloud, buffer) ==
  IF ~lookupTransform(buffer, getEndTime(cloud))
    THEN {"kEndTimeNotInTfBuffer"}
  ELSE IF ~lookupTransform(buffer, getStartTime(cloud))
    THEN {"kStartTimeNotInTfBuffer"}
  ELSE {"kSuccess", "kIntermediateTimeNotInTfBuffer", "kUnknown"}

\* The posed cloud undistortPointcloud writes on kSuccess.
UndistortedPointcloud(cloud) ==
  [pose   |-> PoseAt(getEndTime(cloud)),
   points |-> [i \in 1..Len(cloud.points) |->
                 <<"undistorted", cloud.points[i].position>>]]

\* Mutant: the positions are copied in reverse order.
MutPosedFromLookupReversed(cloud) ==
  [pose   |-> PoseAt(getTimeBase(cloud)),
   points |-> [i \in 1..Len(getPoints(cloud)) |->
                 getPoints(cloud)[Len(getPoints(cloud)) + 1 - i].position]]

\* The posed cloud built without undistortion (lines 195-201).
PosedFromLookup(cloud) ==
  [pose   |-> PoseAt(getTimeBase(cloud)),
   points |-> [i \in 1..Len(getPoints(cloud)) |->
                 getPoints(cloud)[i].position]]

\* ------------------------------------------------- callback(PointCloud2)
\* std::find_if for the field named "x": its index, or Len + 1 for end().
FindX(fields) ==
  IF \E i \in 1..Len(fields) : fields[i] = "x"
    THEN CHOOSE i \in 1..Len(fields) :
           /\ fields[i] = "x"
           /\ \A j \in 1..(i - 1) : fields[j] # "x"
    ELSE Len(fields) + 1

\* The names (++x_field_iter)->name can read at index i. Dereferencing
\* end() is undefined: the read crashes or yields whatever lies there.
ReadFieldName(fields, i) ==
  IF i <= Len(fields) THEN {fields[i]} ELSE PastEndNames \cup {"<fault>"}

\* The outcomes of the field check of lines 59-71.
CheckFields(fields) ==
  LET x == FindX(fields)
  IN  IF x = Len(fields) + 1 THEN {"missing_x"}
      ELSE UNION {
             IF y = "<fault>" THEN {"fault"}
             ELSE IF y # "y" THEN {"bad_y"}
             ELSE UNION {
                    IF z = "<fault>" THEN {"fault"}
                    ELSE IF z # "z" THEN {"bad_z"}
                    ELSE {"ok"}
                    : z \in ReadFieldName(fields, x + 2) }
             : y \in ReadFieldName(fields, x + 1) }

\* stamp_nsec of lines 74-75.
StampNsecPC2(msg, cfg) ==
  rosTimeToNanoSeconds(
    RosTimePlusOffset(nanoSecondsToRosTime(msg.stamp), cfg.time_offset))

\* Mutant: the message's frame id wins over the override.
MutSensorFrameIdOfMessage(msg, cfg) ==
  IF msg.frame_id = "" THEN cfg.sensor_frame_id ELSE msg.frame_id

\* sensor_frame_id of lines 76-78 and 103-105.
SensorFrameId(msg, cfg) ==
  IF cfg.sensor_frame_id = "" THEN msg.frame_id ELSE cfg.sensor_frame_id

\* The points emplaced by the loop of lines 81-84.
PointsPC2(msg) ==
  [i \in 1..Len(msg.points) |->
     [position |-> msg.points[i], time_offset |-> 0]]

\* stamped_pointcloud of lines 79-84.
StampedFromPC2(msg, cfg, id) ==
  [id           |-> id,
   time_base    |-> StampNsecPC2(msg, cfg),
   sensor_frame |-> SensorFrameId(msg, cfg),
   points       |-> PointsPC2(msg)]

\* pointcloud_queue_.emplace(...)
\* Mutant: the cloud is put at the head of the queue.
MutEnqueueAtHead(queue, cloud) == <<cloud>> \o queue

Enqueue(queue, cloud) == Append(queue, cloud)

\* A message the claims call valid: non-empty, and its x field is followed
\* by y and then z.
FieldsValid(fields) ==
  LET x == FindX(fields)
  IN  /\ x + 2 <= Len(fields)
      /\ fields[x + 1] = "y"
      /\ fields[x + 2] = "z"

ValidPC2(msg) == Len(msg.points) > 0 /\ FieldsValid(msg.fields)

ValidLivox(msg) == Len(msg.points) > 0

\* The bookkeeping of one delivered message (history variables only).
NoteDelivery(msg, valid) ==
  IF valid
    THEN /\ accepted' = Append(accepted, msg)
         /\ UNCHANGED invalid_toggle
    ELSE /\ invalid_toggle' = ~invalid_toggle
         /\ UNCHANGED accepted

\* The push of a converted cloud.
Push(cloud) ==
  /\ num_enqueued < MaxClouds
  /\ pointcloud_queue_' = Enqueue(pointcloud_queue_, cloud)
  /\ num_enqueued' = num_enqueued + 1
  /\ available' = IF pc = "idle" THEN 0 ELSE available + 1
  /\ UNCHANGED crashed

NoPush ==
  UNCHANGED << pointcloud_queue_, num_enqueued, crashed, available >>

Crash ==
  /\ crashed' = TRUE
  /\ UNCHANGED << pointcloud_queue_, num_enqueued, available >>

CallbackPC2 ==
  /\ ~crashed
  /\ \E msg \in PC2Msgs :
       /\ NoteDelivery(msg, ValidPC2(msg))
       /\ IF Len(msg.points) = 0
            THEN NoPush
            ELSE \E outcome \in CheckFields(msg.fields) :
                   CASE outcome = "ok" ->
                          Push(StampedFromPC2(msg, config, num_enqueued + 1))
                     [] outcome = "fault" -> Crash
                     [] OTHER -> NoPush
  /\ UNCHANGED << config, integrators_, subscribers, tf, pc, resolve_result,
                  posed_pointcloud, integrated, dropped, iteration, published >>

\* ------------------------------------------------- callback(livox CustomMsg)
\* stamp_nsec of lines 100-102: the int32_t is converted to uint64_t and
\* added modulo 2^64.
StampNsecLivox(msg, cfg) ==
  { Uint64((msg.timebase \div NsPerSec) + (offset_nsec \div NsPerSec),
           (msg.timebase % NsPerSec) + (offset_nsec % NsPerSec))
    : offset_nsec \in CastInt32(cfg.time_offset) }

\* The points emplaced by the loop of lines 108-110.
PointsLivox(msg) ==
  [i \in 1..Len(msg.points) |->
     [position    |-> msg.points[i].position,
      time_offset |-> msg.points[i].offset_time]]

\* stamped_pointcloud of lines 106-110.
StampedFromLivox(msg, cfg, id, stamp_nsec) ==
  [id           |-> id,
   time_base    |-> stamp_nsec,
   sensor_frame |-> SensorFrameId(msg, cfg),
   points       |-> PointsLivox(msg)]

CallbackLivox ==
  /\ ~crashed
  /\ \E msg \in LivoxMsgs :
       /\ NoteDelivery(msg, ValidLivox(msg))
       /\ IF Len(msg.points) = 0
            THEN NoPush
            ELSE \E stamp_nsec \in StampNsecLivox(msg, config) :
                   Push(StampedFromLivox(msg, config, num_enqueued + 1,
                                         stamp_nsec))
  /\ UNCHANGED << config, integrators_, subscribers, tf, pc, resolve_result,
                  posed_pointcloud, integrated, dropped, iteration, published >>

\* ------------------------------------------------------------- processQueue
\* InputHandler::shouldPublish...(): the debug topic has a listener.
shouldPublishReprojectedPointcloud(subs) == subs.reprojected_pointcloud

shouldPublishProjectedRangeImage(subs) == subs.projected_range_image

\* pointcloud_queue_.front(), .back() and .pop()
\* Mutant: the newest cloud is taken as the oldest.
MutFrontIsNewest(queue) == queue[Len(queue)]

front(queue) == queue[1]

back(queue) == queue[Len(queue)]

\* Mutant: the pop is forgotten.
MutPopNothing(queue) == queue

\* Mutant: the newest cloud is removed instead of the oldest.
MutPopNewest(queue) == SubSeq(queue, 1, Len(queue) - 1)

\* Mutant: the head is moved to the back instead of being removed.
MutPopRequeuesHead(queue) == Tail(queue) \o << queue[1] >>

pop(queue) == Tail(queue)

\* The retry test of lines 132-134 (undistortion, end pose missing).
RetryEndPose(oldest_msg, newest_msg, cfg) ==
  DurationLessThan(
    RosTimeMinus(nanoSecondsToRosTime(getTimeBase(newest_msg)),
                 nanoSecondsToRosTime(getEndTime(oldest_msg))),
    cfg.max_wait_for_pose)

\* The retry test of lines 175-177 (direct lookup failed).
RetryLookup(oldest_msg, newest_msg, cfg) ==
  DurationLessThan(
    RosTimeMinus(nanoSecondsToRosTime(getTimeBase(newest_msg)),
                 nanoSecondsToRosTime(getTimeBase(oldest_msg))),
    cfg.max_wait_for_pose)

\* Mutant: the wait is measured from the newest cloud back to the oldest
\* with the operands of the subtraction swapped.
MutShouldRetrySwapped(result, oldest_msg, newest_msg, cfg) ==
  CASE result = "kEndTimeNotInTfBuffer" ->
         DurationLessThan(
           RosTimeMinus(nanoSecondsToRosTime(getEndTime(oldest_msg)),
                        nanoSecondsToRosTime(getTimeBase(newest_msg))),
           cfg.max_wait_for_pose)
    [] result = "lookup_failed" ->
         DurationLessThan(
           RosTimeMinus(nanoSecondsToRosTime(getTimeBase(oldest_msg)),
                        nanoSecondsToRosTime(getTimeBase(newest_msg))),
           cfg.max_wait_for_pose)
    [] OTHER -> FALSE

\* Mutant: a missing start pose is retried like a missing end pose.
MutShouldRetryStartToo(result, oldest_msg, newest_msg, cfg) ==
  CASE result \in {"kEndTimeNotInTfBuffer", "kStartTimeNotInTfBuffer"} ->
         RetryEndPose(oldest_msg, newest_msg, cfg)
    [] result = "lookup_failed" -> RetryLookup(oldest_msg, newest_msg, cfg)
    [] OTHER -> FALSE

\* Mutant: the wait is compared with <= instead of <.
MutShouldRetryInclusive(result, oldest_msg, newest_msg, cfg) ==
  CASE result = "kEndTimeNotInTfBuffer" ->
         DurationLessThan(
           RosTimeMinus(nanoSecondsToRosTime(getTimeBase(newest_msg)),
                        nanoSecondsToRosTime(getEndTime(oldest_msg))),
           cfg.max_wait_for_pose + 1)
    [] result = "lookup_failed" ->
         DurationLessThan(
           RosTimeMinus(nanoSecondsToRosTime(getTimeBase(newest_msg)),
                        nanoSecondsToRosTime(getTimeBase(oldest_msg))),
           cfg.max_wait_for_pose + 1)
    [] OTHER -> FALSE

\* Mutant: every undistortion failure but a missing start pose is retried
\* until the wait bound has elapsed.
MutShouldRetryUnexpectedToo(result, oldest_msg, newest_msg, cfg) ==
  CASE result \in {"kEndTimeNotInTfBuffer",
                   "kIntermediateTimeNotInTfBuffer", "kUnknown"} ->
         RetryEndPose(oldest_msg, newest_msg, cfg)
    [] result = "lookup_failed" -> RetryLookup(oldest_msg, newest_msg, cfg)
    [] OTHER -> FALSE

\* Mutant: the invocation returns on every failure.
MutShouldRetryAnyFailure(result, oldest_msg, newest_msg, cfg) == TRUE

\* Whether the failure branch returns with the cloud still queued
\* (lines 130-163 and 174-179).
ShouldRetry(result, oldest_msg, newest_msg, cfg) ==
  CASE result = "kEndTimeNotInTfBuffer" ->
         RetryEndPose(oldest_msg, newest_msg, cfg)
    [] result = "lookup_failed" -> RetryLookup(oldest_msg, newest_msg, cfg)
    [] OTHER -> FALSE

\* Mutant: the integrators are walked in reverse registration order.
MutIntegrationCallsReversed(integrator_list, cloud, posed) ==
  [i \in 1..Len(integrator_list) |->
     [integrator |-> Len(integrator_list) + 1 - i, id |-> cloud.id,
      posed |-> posed]]

\* The calls of the loop of lines 210-212, in the order they are made.
IntegrationCalls(integrator_list, cloud, posed) ==
  [i \in 1..Len(integrator_list) |->
     [integrator |-> i, id |-> cloud.id, posed |-> posed]]

\* The timer invokes processQueue.
ProcessQueueBegin ==
  /\ ~crashed
  /\ pc = "idle"
  /\ pc' = "loop"
  /\ available' = Len(pointcloud_queue_)
  /\ UNCHANGED << config, integrators_, subscribers, tf, pointcloud_queue_,
                  resolve_result, posed_pointcloud, crashed, num_enqueued,
                  invalid_toggle, accepted, integrated, dropped, iteration,
                  published >>

\* while (!pointcloud_queue_.empty()), line 117.
LoopTest ==
  /\ ~crashed
  /\ pc = "loop"
  /\ IF pointcloud_queue_ = <<>>
       THEN pc' = "idle" /\ iteration' = 0 /\ available' = 0
       ELSE /\ pc' = "resolve" /\ iteration' = iteration + 1
            /\ UNCHANGED available
  /\ UNCHANGED << config, integrators_, subscribers, tf, pointcloud_queue_,
                  resolve_result, posed_pointcloud, crashed, num_enqueued,
                  invalid_toggle, accepted, integrated, dropped, published >>

\* Mutant: only the outcomes the switch names count as failures.
MutSucceededUnlessNamed(result) ==
  result \notin {"kEndTimeNotInTfBuffer", "kStartTimeNotInTfBuffer",
                 "kIntermediateTimeNotInTfBuffer"}

\* undistortion_result == Result::kSuccess (the negation of line 126).
Succeeded(result) == result = "kSuccess"

\* Lines 122-125 and 170-173: resolve the pose of the oldest cloud.
ResolvePose ==
  /\ ~crashed
  /\ pc = "resolve"
  /\ LET oldest_msg == front(pointcloud_queue_)
     IN  IF config.undistort_motion
           THEN \E result \in undistortPointcloud(oldest_msg, tf) :
                  IF Succeeded(result)
                    THEN /\ posed_pointcloud' =
                              UndistortedPointcloud(oldest_msg)
                         /\ resolve_result' = result
                         /\ pc' = "integrate"
                    ELSE /\ resolve_result' = result
                         /\ pc' = "failed"
                         /\ UNCHANGED posed_pointcloud
           ELSE IF lookupTransform(tf, getTimeBase(oldest_msg))
                  THEN /\ posed_pointcloud' = PosedFromLookup(oldest_msg)
                       /\ resolve_result' = "lookup_ok"
                       /\ pc' = "integrate"
                  ELSE /\ resolve_result' = "lookup_failed"
                       /\ pc' = "failed"
                       /\ UNCHANGED posed_pointcloud
  /\ UNCHANGED << available, config, integrators_, subscribers, tf, pointcloud_queue_,
                  crashed, num_enqueued, invalid_toggle, accepted, integrated,
                  dropped, iteration, published >>

\* Lines 126-167 and 174-191: the pose could not be resolved.
HandleFailure ==
  /\ ~crashed
  /\ pc = "failed"
  /\ LET oldest_msg == front(pointcloud_queue_)
         newest_msg == back(pointcloud_queue_)
     IN  IF ShouldRetry(resolve_result, oldest_msg, newest_msg, config)
           THEN /\ pc' = "idle"
                /\ iteration' = 0
                /\ available' = 0
                /\ UNCHANGED << pointcloud_queue_, dropped >>
           ELSE /\ pointcloud_queue_' = pop(pointcloud_queue_)
                /\ dropped' = Append(dropped, oldest_msg.id)
                /\ pc' = "loop"
                /\ UNCHANGED << iteration, available >>
  /\ resolve_result' = NoResult
  /\ UNCHANGED << config, integrators_, subscribers, tf, posed_pointcloud,
                  crashed, num_enqueued, invalid_toggle, accepted, integrated,
                  published >>

\* Mutant: the head is popped before the integrators are called.
MutIntegratePopsFirst ==
  /\ ~crashed
  /\ pc = "integrate"
  /\ pointcloud_queue_' = pop(pointcloud_queue_)
  /\ integrated' =
       integrated \o IntegrationCalls(integrators_,
                                      front(pointcloud_queue_),
                                      posed_pointcloud)
  /\ pc' = "publish"
  /\ UNCHANGED << available, config, integrators_, subscribers, tf,
                  resolve_result, posed_pointcloud, crashed, num_enqueued,
                  invalid_toggle, accepted, dropped, iteration, published >>

\* Lines 204-217: hand the posed cloud to every integrator.
Integrate ==
  /\ ~crashed
  /\ pc = "integrate"
  /\ integrated' =
       integrated \o IntegrationCalls(integrators_,
                                      front(pointcloud_queue_),
                                      posed_pointcloud)
  /\ pc' = "publish"
  /\ UNCHANGED << available, config, integrators_, subscribers, tf, pointcloud_queue_,
                  resolve_result, posed_pointcloud, crashed, num_enqueued,
                  invalid_toggle, accepted, dropped, iteration, published >>

\* Lines 219-236: publish the debugging visualizations.
Publish ==
  /\ ~crashed
  /\ pc = "publish"
  /\ LET oldest_msg == front(pointcloud_queue_)
         reprojected ==
           IF shouldPublishReprojectedPointcloud(subscribers)
             THEN { [topic |-> "reprojected_pointcloud",
                     stamp |-> getMedianTime(oldest_msg),
                     id    |-> oldest_msg.id] }
             ELSE {}
         range_image ==
           { [topic |-> "projected_range_image",
              stamp |-> getMedianTime(oldest_msg),
              id    |-> oldest_msg.id] }
     IN  IF ~shouldPublishProjectedRangeImage(subscribers)
           THEN /\ published' = reprojected
                /\ UNCHANGED crashed
         ELSE IF integrators_ = <<>>
           \* integrators_.front() of an empty vector is undefined
           THEN \/ /\ crashed' = TRUE
                   /\ published' = reprojected
                \/ /\ published' = reprojected
                   /\ UNCHANGED crashed
         ELSE IF integrators_[1] # "projective"
           THEN /\ published' = reprojected
                /\ UNCHANGED crashed
         ELSE \E has_range_image \in BOOLEAN :
                /\ published' =
                     IF has_range_image THEN reprojected \cup range_image
                                        ELSE reprojected
                /\ UNCHANGED crashed
  /\ pc' = "pop"
  /\ UNCHANGED << available, config, integrators_, subscribers, tf, pointcloud_queue_,
                  resolve_result, posed_pointcloud, num_enqueued,
                  invalid_toggle, accepted, integrated, dropped, iteration >>

\* Line 239: remove the integrated cloud.
PopIntegrated ==
  /\ ~crashed
  /\ pc = "pop"
  /\ pointcloud_queue_' = pop(pointcloud_queue_)
  /\ posed_pointcloud' = DefaultPosedPointcloud
  /\ published' = {}
  /\ resolve_result' = NoResult
  /\ pc' = "loop"
  /\ UNCHANGED << available, config, integrators_, subscribers, tf,
                  crashed, num_enqueued, invalid_toggle, accepted, integrated,
                  dropped, iteration >>

\* ---------------------------------------------------------- transform buffer
\* The transform listener receives newer transforms.
TfAdvance ==
  /\ ~crashed
  /\ \E stamp \in TfNewestStamps :
       /\ stamp > tf.newest
       /\ tf' = [tf EXCEPT !.newest = stamp]
  /\ UNCHANGED << available, config, integrators_, subscribers, pointcloud_queue_, pc,
                  resolve_result, posed_pointcloud, crashed, num_enqueued,
                  invalid_toggle, accepted, integrated, dropped, iteration, published >>

\* The transform buffer evicts its oldest transforms.
TfEvict ==
  /\ ~crashed
  /\ \E stamp \in TfOldestStamps :
       /\ stamp > tf.oldest
       /\ stamp <= tf.newest
       /\ tf' = [tf EXCEPT !.oldest = stamp]
  /\ UNCHANGED << available, config, integrators_, subscribers, pointcloud_queue_, pc,
                  resolve_result, posed_pointcloud, crashed, num_enqueued,
                  invalid_toggle, accepted, integrated, dropped, iteration, published >>

\* ------------------------------------------------------------ specification
Configs ==
  [undistort_motion : BOOLEAN, max_wait_for_pose : MaxWaits,
   sensor_frame_id : FrameOverrides, time_offset : TimeOffsets]

Init ==
  /\ config \in Configs
  /\ integrators_ \in IntegratorLists
  /\ subscribers \in SubscriberSetups
  /\ tf = [oldest |-> 0, newest |-> 150]
  /\ pointcloud_queue_ = <<>>
  /\ pc = "idle"
  /\ resolve_result = NoResult
  /\ posed_pointcloud = DefaultPosedPointcloud
  /\ crashed = FALSE
  /\ num_enqueued = 0
  /\ invalid_toggle = FALSE
  /\ accepted = <<>>
  /\ integrated = <<>>
  /\ dropped = <<>>
  /\ iteration = 0
  /\ published = {}
  /\ available = 0

Next ==
  \/ CallbackPC2
  \/ CallbackLivox
  \/ ProcessQueueBegin
  \/ LoopTest
  \/ ResolvePose
  \/ HandleFailure
  \/ Integrate
  \/ Publish
  \/ PopIntegrated
  \/ TfAdvance
  \/ TfEvict

Spec == Init /\ [][Next]_vars

\* The timer keeps invoking processQueue, and an invocation runs on.
ProcessQueueStep ==
  \/ ProcessQueueBegin
  \/ LoopTest
  \/ ResolvePose
  \/ HandleFailure
  \/ Integrate
  \/ Publish
  \/ PopIntegrated

FairSpec == Spec /\ WF_vars(ProcessQueueStep)

\* The handler under every registration of integrators and every listener
\* setup of the debug topics, with one configuration (no undistortion,
\* max_wait_for_pose of 0.5 s).
DebugIntegratorLists ==
  { <<>>, <<"ray", "projective">>, <<"projective", "ray">> }

DebugSubscriberSetups ==
  [reprojected_pointcloud : BOOLEAN, projected_range_image : BOOLEAN]

DebugInit ==
  /\ config \in { cfg \in Configs : /\ ~cfg.undistort_motion
                                     /\ cfg.max_wait_for_pose > 0 }
  /\ integrators_ \in DebugIntegratorLists
  /\ subscribers \in DebugSubscriberSetups
  /\ tf = [oldest |-> 0, newest |-> 150]
  /\ pointcloud_queue_ = <<>>
  /\ pc = "idle"
  /\ resolve_result = NoResult
  /\ posed_pointcloud = DefaultPosedPointcloud
  /\ crashed = FALSE
  /\ num_enqueued = 0
  /\ invalid_toggle = FALSE
  /\ accepted = <<>>
  /\ integrated = <<>>
  /\ dropped = <<>>
  /\ iteration = 0
  /\ published = {}
  /\ available = 0

DebugSpec == DebugInit /\ [][Next]_vars

\* The two producers alone, under every kind of time_offset (negative,
\* zero, within int32_t nanoseconds, beyond int32_t nanoseconds) and with
\* and without a sensor_frame_id override. Every offset keeps the stamp of
\* every message non-negative.
ConvTimeOffsets ==
  { [sec |-> -1, nsec |-> 999999900],
    [sec |-> 0, nsec |-> 0],
    [sec |-> 1, nsec |-> 0],
    [sec |-> 3, nsec |-> 0] }

ConvFrameOverrides == {"", "base_link"}

ConvConfigs ==
  [undistort_motion : {FALSE}, max_wait_for_pose : {0},
   sensor_frame_id : ConvFrameOverrides, time_offset : ConvTimeOffsets]

ConvInit ==
  /\ config \in ConvConfigs
  /\ integrators_ \in IntegratorLists
  /\ subscribers \in SubscriberSetups
  /\ tf = [oldest |-> 0, newest |-> 150]
  /\ pointcloud_queue_ = <<>>
  /\ pc = "idle"
  /\ resolve_result = NoResult
  /\ posed_pointcloud = DefaultPosedPointcloud
  /\ crashed = FALSE
  /\ num_enqueued = 0
  /\ invalid_toggle = FALSE
  /\ accepted = <<>>
  /\ integrated = <<>>
  /\ dropped = <<>>
  /\ iteration = 0
  /\ published = {}
  /\ available = 0

ConvNext ==
  \/ CallbackPC2
  \/ CallbackLivox

ConvSpec == ConvInit /\ [][ConvNext]_vars

\* ===================================================================== claims
\* The (integrator, cloud id) pairs of the integratePointcloud calls so far.
CallPairs ==
  [k \in 1..Len(integrated) |->
     << integrated[k].integrator, integrated[k].id >>]

\* The calls that integrate clouds 1..n in order, each on every integrator
\* in registration order.
RECURSIVE CallsInOrder(_)
CallsInOrder(n) ==
  IF n = 0 THEN <<>>
  ELSE CallsInOrder(n - 1)
         \o [i \in 1..Len(integrators_) |-> << i, n >>]

\* The boundary the wait is measured from: the end time under
\* undistortion, the timebase otherwise.
Boundary(cloud) ==
  IF config.undistort_motion
    THEN getTimeBase(cloud)
           + MaxOf({ cloud.points[i].time_offset :
                       i \in 1..Len(cloud.points) })
    ELSE getTimeBase(cloud)

\* processQueue found the head's pose unavailable with the retryable outcome.
RetryableFailure ==
  /\ pc = "failed"
  /\ resolve_result \in {"kEndTimeNotInTfBuffer", "lookup_failed"}

\* The wait the code has measured for the head: newest queued timebase
\* minus the head's boundary, in nanoseconds.
MeasuredWait ==
  getTimeBase(pointcloud_queue_[Len(pointcloud_queue_)])
    - Boundary(pointcloud_queue_[1])

\* C1: when every pose was available (no cloud was dropped), processQueue
\* has passed all enqueued clouds to the integrators in enqueue order, each
\* once, by the time it is idle with an empty queue; and it returns only
\* with an empty queue unless a pose lookup failed.
C1_InOrderAndDrained ==
  /\ [](pc = "idle" /\ pointcloud_queue_ = <<>> /\ dropped = <<>>
          => CallPairs = CallsInOrder(num_enqueued))
  /\ [][(pc \notin {"idle", "failed"} /\ pc' = "idle")
          => pointcloud_queue_' = <<>>]_vars

\* C1 witness: one invocation is about to return after two iterations that
\* integrated both enqueued clouds.
C1_Witness ==
  /\ pc = "loop" /\ iteration = 2 /\ pointcloud_queue_ = <<>>
  /\ num_enqueued = 2 /\ dropped = <<>>
  /\ Len(integrated) = 2 * Len(integrators_)

\* C2: head-of-line stall. While processQueue has found the head's pose
\* unavailable with the retryable outcome and the measured wait is below
\* max_wait_for_pose, no step pops or integrates a cloud: the queued clouds
\* stay as they are (a callback may only append behind them) and
\* processQueue returns.
C2_StallNotSkip ==
  [][(RetryableFailure /\ MeasuredWait < config.max_wait_for_pose)
       => /\ Len(pointcloud_queue_') >= Len(pointcloud_queue_)
          /\ \A i \in 1..Len(pointcloud_queue_) :
               pointcloud_queue_'[i] = pointcloud_queue_[i]
          /\ integrated' = integrated
          /\ dropped' = dropped
          /\ pc' \in {"failed", "idle"}]_vars

\* C2 witness: under undistortion processQueue is in the failure branch
\* for a head whose end pose is not buffered and whose wait has not
\* elapsed, while the cloud queued behind it can be undistorted.
C2_Witness ==
  /\ RetryableFailure /\ MeasuredWait < config.max_wait_for_pose
  /\ config.undistort_motion
  /\ Len(pointcloud_queue_) = 2
  /\ undistortPointcloud(pointcloud_queue_[2], tf)
       # {"kEndTimeNotInTfBuffer"}
  /\ "kSuccess" \in undistortPointcloud(pointcloud_queue_[2], tf)

\* C3: when the measured wait has reached max_wait_for_pose and the head's
\* pose is still unavailable, the step of processQueue removes exactly the
\* head, logs it as dropped, integrates nothing and stays in the loop; the
\* loop test then goes on to the next queued cloud; no cloud is dropped
\* twice or both dropped and integrated.
C3_DropOnceAndContinue ==
  /\ [][(RetryableFailure /\ MeasuredWait >= config.max_wait_for_pose
           /\ pc' # pc)
          => /\ pointcloud_queue_' = Tail(pointcloud_queue_)
             /\ dropped' = Append(dropped, pointcloud_queue_[1].id)
             /\ integrated' = integrated
             /\ pc' = "loop"]_vars
  /\ [][(pc = "loop" /\ pointcloud_queue_ # <<>> /\ pc' # pc)
          => /\ pc' = "resolve"
             /\ pointcloud_queue_' = pointcloud_queue_]_vars
  /\ [](/\ \A i, j \in 1..Len(dropped) : dropped[i] = dropped[j] => i = j
        /\ \A i \in 1..Len(dropped), k \in 1..Len(integrated) :
             dropped[i] # integrated[k].id)

\* C3 witness: without undistortion and with a positive wait bound, the
\* second iteration of one invocation resolves the cloud behind a cloud
\* dropped in its first iteration.
C3_Witness ==
  /\ ~config.undistort_motion /\ config.max_wait_for_pose > 0
  /\ pc = "resolve" /\ iteration = 2
  /\ dropped # <<>>
  /\ dropped[Len(dropped)] = pointcloud_queue_[1].id - 1

\* C4: with undistortion, a head whose result is kStartTimeNotInTfBuffer is
\* popped and discarded by the failure branch whatever max_wait_for_pose
\* is, and processQueue returns with a cloud still queued only on
\* kEndTimeNotInTfBuffer.
C4_StartDropsEndRetries ==
  /\ [][(pc = "failed" /\ resolve_result = "kStartTimeNotInTfBuffer"
           /\ pc' # pc)
          => /\ pointcloud_queue_' = Tail(pointcloud_queue_)
             /\ dropped' = Append(dropped, pointcloud_queue_[1].id)
             /\ integrated' = integrated
             /\ pc' = "loop"]_vars
  /\ [][(config.undistort_motion /\ pc # "idle" /\ pc' = "idle"
           /\ pointcloud_queue_' # <<>>)
          => resolve_result = "kEndTimeNotInTfBuffer"]_vars

\* C4 witness: a missing start pose with a positive wait bound that the
\* measured wait has not reached.
C4_Witness ==
  /\ config.undistort_motion /\ config.max_wait_for_pose > 0
  /\ pc = "failed" /\ resolve_result = "kStartTimeNotInTfBuffer"
  /\ MeasuredWait < config.max_wait_for_pose

C6_ScenarioA ==
  /\ config.undistort_motion /\ config.max_wait_for_pose = 500000000
  /\ tf.newest = 150
  /\ num_enqueued = 1 /\ Len(pointcloud_queue_) = 1
  /\ getStartTime(pointcloud_queue_[1]) = 100
  /\ getEndTime(pointcloud_queue_[1]) = 200

\* C6: the pipeline does not retry indefinitely. While processQueue keeps
\* being invoked, cloud A of the scenario is eventually dropped and the
\* queue is empty, also when no new pose data arrives and no further cloud
\* is ever enqueued.
C6_EventuallyDropped ==
  [](C6_ScenarioA
       => <>(\/ pointcloud_queue_ = <<>>
             \/ tf.newest > 150 \/ num_enqueued > 1 \/ crashed))

\* C7: a callback that is handed an empty or field-invalid message returns
\* without changing the queue and without a fault.
C7_InvalidMessageIgnored ==
  [][invalid_toggle' # invalid_toggle
       => /\ pointcloud_queue_' = pointcloud_queue_
          /\ ~crashed']_vars

\* The positions a message carries, in message order.
MsgPositions(msg) ==
  [i \in 1..Len(msg.points) |->
     IF "timebase" \in DOMAIN msg THEN msg.points[i].position
                                  ELSE msg.points[i]]

\* C8: the delivery of a non-empty, field-valid message appends exactly one
\* cloud behind the clouds already queued, which stay as they are, and the
\* new cloud holds the message's points in the message's order.
C8_AcceptedAppendsOne ==
  [][accepted' # accepted
       => /\ Len(pointcloud_queue_') = Len(pointcloud_queue_) + 1
          /\ \A i \in 1..Len(pointcloud_queue_) :
               pointcloud_queue_'[i] = pointcloud_queue_[i]
          /\ LET cloud == pointcloud_queue_'[Len(pointcloud_queue_')]
                 msg   == accepted'[Len(accepted')]
             IN  /\ Len(cloud.points) = Len(msg.points)
                 /\ \A i \in 1..Len(cloud.points) :
                      cloud.points[i].position = MsgPositions(msg)[i]]_vars

\* C8 witness: a second message has been accepted behind a queued cloud.
C8_Witness ==
  /\ Len(accepted) = 2
  /\ Len(pointcloud_queue_) = 2
  /\ pointcloud_queue_[2].id = 2
  /\ Len(pointcloud_queue_[2].points) = 2

\* C9: the step that integrates a cloud calls integratePointcloud on every
\* registered integrator once, in registration order, with one and the same
\* posed cloud, for the cloud at the head of the queue; and no integrator
\* is ever called twice for a cloud.
C9_EveryIntegratorInOrder ==
  /\ [][integrated' # integrated
          => /\ Len(integrated') = Len(integrated) + Len(integrators_)
             /\ \A k \in 1..Len(integrated) : integrated'[k] = integrated[k]
             /\ \A i \in 1..Len(integrators_) :
                  LET call == integrated'[Len(integrated) + i]
                  IN  /\ call.integrator = i
                      /\ call.id = pointcloud_queue_[1].id
                      /\ call.posed = posed_pointcloud]_vars
  /\ [](\A k, l \in 1..Len(integrated) :
          (integrated[k].id = integrated[l].id
             /\ integrated[k].integrator = integrated[l].integrator)
            => k = l)

\* C9 witness: three integrators are registered and the calls for one cloud
\* were integrator 1, 2, 3.
C9_Witness ==
  /\ Len(integrators_) = 3
  /\ Len(integrated) = 3
  /\ CallPairs = << <<1, 1>>, <<2, 1>>, <<3, 1>> >>

\* The ids of the clouds that have left the queue.
ConsumedIds == 1..(num_enqueued - Len(pointcloud_queue_))

\* The ids of the clouds handed to the integrators.
IntegratedIds == { integrated[k].id : k \in 1..Len(integrated) }

\* The ids of the dropped clouds.
DroppedIds == { dropped[k] : k \in 1..Len(dropped) }

\* C10: whatever the interleaving of callbacks and processQueue steps, the
\* queue holds the most recently enqueued clouds in enqueue order (no cloud
\* overtakes or is lost), and every cloud that left the queue was either
\* dropped once or integrated once (by every integrator), never both.
C10_ConsumedExactlyOnce ==
  /\ \A i \in 1..Len(pointcloud_queue_) :
       pointcloud_queue_[i].id
         = num_enqueued - Len(pointcloud_queue_) + i
  /\ DroppedIds \cap IntegratedIds = {}
  /\ Cardinality(DroppedIds) = Len(dropped)
  /\ Len(integrated) = Cardinality(IntegratedIds) * Len(integrators_)
  /\ \A k, l \in 1..Len(integrated) :
       (integrated[k].id = integrated[l].id
          /\ integrated[k].integrator = integrated[l].integrator)
         => k = l
  /\ DroppedIds \cup IntegratedIds
       = ConsumedIds
           \cup (IF pc \in {"publish", "pop"}
                   THEN {pointcloud_queue_[1].id} ELSE {})

\* C10 witness: of two enqueued clouds the first was dropped, and the
\* second has been integrated and is about to be popped.
C10_Witness ==
  /\ pc = "pop"
  /\ Len(dropped) = 1
  /\ Len(pointcloud_queue_) = 1
  /\ num_enqueued = 2
  /\ IntegratedIds = {2}

\* The posed cloud a successful resolution of the cloud yields.
ResolvedPosedPointcloud(cloud) ==
  IF config.undistort_motion THEN UndistortedPointcloud(cloud)
                             ELSE PosedFromLookup(cloud)

\* C11: fail-safe dispatch. The integrators are called, and the debug
\* topics published to, only in an iteration whose pose resolution
\* succeeded (kSuccess, or a successful lookup), with the posed cloud that
\* resolution produced for the head; the step that handles a failed
\* resolution, whatever the outcome, integrates and publishes nothing, and
\* no dropped cloud is ever among the integrated ones.
C11_OnlyResolvedDispatched ==
  /\ [][integrated' # integrated
          => /\ resolve_result \in {"kSuccess", "lookup_ok"}
             /\ posed_pointcloud
                  = ResolvedPosedPointcloud(pointcloud_queue_[1])
             /\ pointcloud_queue_[1].id \notin DroppedIds]_vars
  /\ [][(published' # published /\ published' # {})
          => /\ resolve_result \in {"kSuccess", "lookup_ok"}
             /\ \A p \in published' :
                  /\ p.id = pointcloud_queue_[1].id
                  /\ p.id \in IntegratedIds]_vars
  /\ [][(pc = "failed" /\ pc' # pc)
          => /\ integrated' = integrated
             /\ published' = {}
             /\ pointcloud_queue_[1].id \notin IntegratedIds']_vars
  /\ [](DroppedIds \cap IntegratedIds = {})

\* C11 witness: after one cloud was integrated, the undistortion of the
\* next one ended with an unrecognised result.
C11_Witness ==
  /\ pc = "failed" /\ resolve_result = "kUnknown"
  /\ IntegratedIds = {1}
  /\ pointcloud_queue_[1].id = 2

\* The topics the debug step of the running iteration may publish to:
\* the reprojected cloud when it has a listener, the range image when it
\* has a listener and the first registered integrator is projective.
MayPublish ==
  (IF subscribers.reprojected_pointcloud
     THEN {"reprojected_pointcloud"} ELSE {})
  \cup (IF /\ subscribers.projected_range_image
            /\ integrators_ # <<>>
            /\ integrators_[1] = "projective"
          THEN {"projected_range_image"} ELSE {})

\* C12: the debug step never produces an error. It publishes the
\* reprojected cloud exactly when that topic has a listener, the range
\* image only when its topic has a listener and the first registered
\* integrator is projective; in every other case, also with no integrator
\* registered, it does nothing and the process lives on.
C12_DebugPublishingNeverFails ==
  [][(pc = "publish" /\ pc' # pc)
       => /\ ~crashed'
          /\ { p.topic : p \in published' } \subseteq MayPublish
          /\ subscribers.reprojected_pointcloud
               => \E p \in published' : p.topic = "reprojected_pointcloud"
          /\ \A p \in published' :
               p.id = pointcloud_queue_[1].id]_vars

\* A message's native timestamp [ns].
NativeStamp(msg) ==
  IF "timebase" \in DOMAIN msg THEN msg.timebase ELSE msg.stamp

\* Native timestamp plus time offset, as a uint64_t count of nanoseconds.
StampPlusOffset(native_nsec, offset) ==
  Uint64((native_nsec \div NsPerSec) + offset.sec,
         (native_nsec % NsPerSec) + offset.nsec)

\* C13: for both producers, the timebase of the cloud enqueued for an
\* accepted message is the message's native timestamp plus the configured
\* time offset, whatever the offset (so both producers give the same
\* timebase for the same timestamp and offset).
C13_TimebaseIsStampPlusOffset ==
  [][accepted' # accepted
       => pointcloud_queue_'[Len(pointcloud_queue_')].time_base
            = StampPlusOffset(NativeStamp(accepted'[Len(accepted')]),
                              config.time_offset)]_vars

\* C15: for both producers, the sensor frame of the cloud enqueued for an
\* accepted message is the configured sensor_frame_id whenever that is
\* non-empty, and the frame id the message carries otherwise.
C15_FrameOverrideWins ==
  [][accepted' # accepted
       => LET cloud == pointcloud_queue_'[Len(pointcloud_queue_')]
              msg   == accepted'[Len(accepted')]
          IN  /\ config.sensor_frame_id # ""
                   => cloud.sensor_frame = config.sensor_frame_id
              /\ config.sensor_frame_id = ""
                   => cloud.sensor_frame = msg.frame_id]_vars

\* C15 witness: with an override configured that differs from the frame
\* id of the messages, one message of each producer has been enqueued.
C15_Witness ==
  /\ config.sensor_frame_id = "base_link"
  /\ Len(accepted) = 2 /\ Len(pointcloud_queue_) = 2
  /\ "stamp" \in DOMAIN accepted[1] /\ "timebase" \in DOMAIN accepted[2]
  /\ accepted[1].frame_id = "lidar" /\ accepted[2].frame_id = "lidar"
  /\ pointcloud_queue_[1].sensor_frame = "base_link"
  /\ pointcloud_queue_[2].sensor_frame = "base_link"

\* C14: without undistortion, every integratePointcloud call of an
\* iteration whose lookup succeeded gets a posed cloud with the one pose
\* looked up at the head's timebase and the head's positions: as many, in
\* the same order, each as it is in the head cloud.
C14_LookupBindsPointsUnmodified ==
  [][(integrated' # integrated /\ ~config.undistort_motion)
       => LET head == pointcloud_queue_[1]
          IN  \A k \in (Len(integrated) + 1)..Len(integrated') :
                LET posed == integrated'[k].posed
                IN  /\ resolve_result = "lookup_ok"
                    /\ posed.pose = [T_W_C_at |-> head.time_base.sec * NsPerSec
                                                   + head.time_base.nsec]
                    /\ Len(posed.points) = Len(head.points)
                    /\ \A i \in 1..Len(head.points) :
                         posed.points[i] = head.points[i].position]_vars

\* C14 witness: without undistortion a cloud of two distinct positions,
\* stamped 500000100 ns, has been handed to the integrators.
C14_Witness ==
  /\ ~config.undistort_motion
  /\ pc = "publish"
  /\ pointcloud_queue_[1].points
       = << [position |-> "p2", time_offset |-> 0],
            [position |-> "p1", time_offset |-> 0] >>
  /\ integrated[Len(integrated)].id = pointcloud_queue_[1].id
  /\ integrated[Len(integrated)].posed
       = [pose |-> [T_W_C_at |-> 500000100], points |-> <<"p2", "p1">>]

\* The ids of the queued clouds.
QueuedIds == { pointcloud_queue_[i].id : i \in 1..Len(pointcloud_queue_) }

\* C16 as claimed: the head is removed before the first integrator is
\* invoked, so a cloud handed to an integrator is no longer queued.
C16_PoppedBeforeIntegration ==
  [][integrated' # integrated
       => integrated'[Len(integrated')].id \notin QueuedIds]_vars

\* C16 amended: the head stays at the head of the queue while the
\* integrators are invoked and while the debug topics are published, and
\* is removed only by the step after these.
C16_PoppedAfterPublishing ==
  /\ [][integrated' # integrated
          => /\ pointcloud_queue_' = pointcloud_queue_
             /\ integrated'[Len(integrated')].id
                  = pointcloud_queue_[1].id]_vars
  /\ [][(pc = "publish" /\ pc' # pc)
          => /\ Len(pointcloud_queue_') = Len(pointcloud_queue_)
             /\ pointcloud_queue_'[1] = pointcloud_queue_[1]
             /\ pointcloud_queue_[1].id \in IntegratedIds]_vars
  /\ [][(pc = "pop" /\ pc' # pc)
          => /\ pointcloud_queue_[1].id \in IntegratedIds
             /\ pointcloud_queue_' = Tail(pointcloud_queue_)]_vars

\* C16 witness: the head has been handed to the integrators and is still
\* queued, with another cloud behind it.
C16_Witness ==
  /\ pc = "publish"
  /\ Len(pointcloud_queue_) = 2
  /\ IntegratedIds = {pointcloud_queue_[1].id}

\* C17: with undistortion, a head whose result is
\* kIntermediateTimeNotInTfBuffer or an unrecognised value is popped and
\* discarded by the failure branch of the same iteration, whatever
\* max_wait_for_pose and the other queued clouds are; the invocation goes
\* on, and its loop test takes up the next cloud.
C17_UnexpectedResultDropsAtOnce ==
  /\ [][(pc = "failed"
           /\ resolve_result \in {"kIntermediateTimeNotInTfBuffer", "kUnknown"}
           /\ pc' # pc)
          => /\ pointcloud_queue_' = Tail(pointcloud_queue_)
             /\ dropped' = Append(dropped, pointcloud_queue_[1].id)
             /\ integrated' = integrated
             /\ pc' = "loop"
             /\ iteration' = iteration]_vars
  /\ [][(pc = "loop" /\ iteration > 0 /\ pointcloud_queue_ # <<>>
           /\ pc' # pc)
          => /\ pc' = "resolve"
             /\ iteration' = iteration + 1]_vars

\* C17 witness: the failure branch is entered with
\* kIntermediateTimeNotInTfBuffer for the head of two queued clouds while
\* max_wait_for_pose is positive and the measured wait is below it.
C17_Witness ==
  /\ config.undistort_motion /\ config.max_wait_for_pose > 0
  /\ pc = "failed"
  /\ resolve_result = "kIntermediateTimeNotInTfBuffer"
  /\ Len(pointcloud_queue_) = 2
  /\ MeasuredWait < config.max_wait_for_pose

\* An upper bound on the steps the running invocation can still take
\* before it returns: six per iteration not yet begun, plus those left in
\* the iteration under way.
StepsLeft ==
  6 * (available - iteration)
    + (CASE pc = "resolve" -> 5
         [] pc \in {"failed", "integrate"} -> 4
         [] pc = "publish" -> 3
         [] pc = "pop" -> 2
         [] OTHER -> 0)

\* C18: processQueue never blocks and terminates. Every iteration of its
\* loop ends either with the return of the invocation, the queue left as
\* it is, or with exactly the head removed; an invocation begins no more
\* iterations than it has had clouds to work on (the clouds queued when it
\* began, when no producer pushes meanwhile); while it runs, its next
\* step never waits; and every step that does not return brings it closer
\* to its return.
C18_NeverBlocksAndTerminates ==
  /\ [][(pc \in {"failed", "pop"} /\ pc' # pc)
          => \/ pc' = "idle" /\ pointcloud_queue_' = pointcloud_queue_
             \/ pc' = "loop" /\ pointcloud_queue_' = Tail(pointcloud_queue_)]_vars
  /\ [][iteration' > iteration
          => /\ iteration' = iteration + 1
             /\ pc = "loop" /\ pointcloud_queue_ # <<>>]_vars
  /\ [](iteration <= available)
  /\ []((pc # "idle" /\ ~crashed) => ENABLED ProcessQueueStep)
  /\ [](StepsLeft >= 0)
  /\ [][(pc # "idle" /\ pc' # pc /\ pc' # "idle")
          => StepsLeft' < StepsLeft]_vars

\* C18 witness: an invocation that has had two clouds to work on is in
\* its second iteration, the first cloud removed.
C18_Witness ==
  /\ available = 2 /\ iteration = 2
  /\ Len(pointcloud_queue_) = 1
  /\ pc = "resolve"

\* C19: post-condition of processQueue. The step by which an invocation
\* returns leaves the queue empty, or leaves it as it was with a head whose
\* resolution in this invocation failed with the retryable outcome
\* (kEndTimeNotInTfBuffer under undistortion, a failed lookup otherwise)
\* and whose measured wait is below max_wait_for_pose; it never returns
\* from an iteration whose resolution succeeded or failed for good.
C19_ReturnsEmptyOrDeferred ==
  [][(pc # "idle" /\ pc' = "idle")
       => \/ pointcloud_queue_' = <<>>
          \/ /\ pointcloud_queue_' = pointcloud_queue_
             /\ resolve_result
                  = (IF config.undistort_motion THEN "kEndTimeNotInTfBuffer"
                                                ELSE "lookup_failed")
             /\ MeasuredWait < config.max_wait_for_pose
             /\ pointcloud_queue_[1].id \notin IntegratedIds \cup DroppedIds]_vars

\* C19 witness: after its first iteration removed a cloud, an invocation
\* is about to return from its second with the head deferred.
C19_Witness ==
  /\ RetryableFailure
  /\ MeasuredWait < config.max_wait_for_pose
  /\ iteration = 2
  /\ Len(pointcloud_queue_) = 1

\* C20: with max_wait_for_pose = 0 processQueue never defers: the failure
\* branch always removes the head and stays in the loop, whatever the
\* queue holds, and an invocation returns only with an empty queue.
C20_ZeroWaitNeverDefers ==
  /\ [][(config.max_wait_for_pose = 0 /\ pc = "failed" /\ pc' # pc)
          => /\ pc' = "loop"
             /\ pointcloud_queue_' = Tail(pointcloud_queue_)]_vars
  /\ [][(config.max_wait_for_pose = 0 /\ pc # "idle" /\ pc' = "idle")
          => pointcloud_queue_' = <<>>]_vars

====
